---------------------------- MODULE Spec2Model ----------------------------
(***************************************************************************)
(* State-machine model of the Express application of src/src/server.ts:    *)
(* the OAuth callback (exchange, tenant fetch, find-by-email, update or    *)
(* create, cookie), the two gated /sign-up routes, / and /xero/sign-up,    *)
(* and /logout.  Every asynchronous handler is cut at its awaits: one      *)
(* action is one event-loop turn of one request, or the moment the         *)
(* datastore applies a statement.  Requests interleave freely at awaits.   *)
(***************************************************************************)
EXTENDS Integers, Sequences, FiniteSets, TLC

\* Number of HTTP requests one behaviour handles.
MaxReqs == 2

ReqIds == 1..MaxReqs

\* Identities the provider can authenticate: the claims of an id_token.
Identities ==
    { [email |-> "alice@example.com", given_name |-> "Alice"],
      [email |-> "alice@example.com", given_name |-> "Alicia"],
      [email |-> "bob@example.com",   given_name |-> "Bob"] }

\* Values of the sign-up form's moreInfo field.
Bodies == {"Interested in Module X", "Interested in Module Y"}

VARIABLES
    users,        \* the User table: a sequence of rows, a row's id is its index
    xero,         \* the single XeroClient of the process: tokenSet, tenants
    reqs,         \* every request: its inputs, locals, position and response
    nextUuid,     \* the identifiers uuid() has handed out so far, plus one
    oldSessions,  \* history: session values a store write has overwritten
    issued,       \* history: session values sent in a recentSession cookie
    proc,         \* "loading", "fatal", "constructed", "serving" or "crashed"
    env           \* the configuration variables set in the environment

vars == <<users, xero, reqs, nextUuid, oldSessions, issued, proc, env>>

-----------------------------------------------------------------------------
\* Values

NoCookie == [kind |-> "none", value |-> 0]
NoSetCookie == [op |-> "none", value |-> 0]

\* The claims the provider puts in the id_token of an identity.
ClaimsOf(idn) ==
    [given_name  |-> idn.given_name,
     family_name |-> IF idn.email = "alice@example.com" THEN "Liddell" ELSE "Builder",
     email       |-> idn.email,
     xero_userid |-> IF idn.email = "alice@example.com" THEN "xu-alice" ELSE "xu-bob"]

\* What the authorization-code exchange returns for an identity: the id_token
\* is the encoded claims, the access_token is bound to the account.
TokenSetOf(idn) ==
    [id_token     |-> <<"jwt", ClaimsOf(idn)>>,
     access_token |-> <<"at", idn.email>>]

\* jwtDecode: the payload of the token.
jwtDecode(id_token) == id_token[2]

\* GET /connections answered for a bearer token: the tenants of its account.
ConnectionsOf(access_token) == << <<"tenant", access_token[2]>> >>

\* xero.tenants[0]
FirstTenant(tenants) == IF Len(tenants) = 0 THEN <<>> ELSE tenants[1]

\* A request before it arrives.  The last two lines are history, not program
\* state: where the request failed, how many session lookups, store writes
\* and exchanges it has made, and whether, when its session lookup ran, a
\* row held the cookie's session (held) or the session had been overwritten
\* (stale).
IdleReq ==
    [kind |-> "none", pc |-> "idle", cookie |-> NoCookie, identity |-> <<>>,
     body |-> <<>>, tokenSet |-> <<>>, bearer |-> <<>>, activeTenant |-> <<>>,
     user |-> <<>>, recentSession |-> 0, params |-> <<>>,
     outcome |-> "pending", setCookie |-> NoSetCookie,
     failedAt |-> "", lookups |-> 0, writes |-> 0, exchanges |-> 0,
     held |-> FALSE, stale |-> FALSE]

-----------------------------------------------------------------------------
\* The User table (sequelize model User)

\* Ids of the rows a where-clause on email matches.
MatchEmail(store, email) == {k \in 1..Len(store) : store[k].email = email}

\* Ids of the rows a where-clause on session matches.
MatchSession(store, session) == {k \in 1..Len(store) : store[k].session = session}

\* findOne resolves with any one matching row (LIMIT 1, no ORDER BY) as an
\* instance holding a snapshot of it, or with null: the possible results.
FindOne(store, matches) ==
    IF matches = {} THEN {<<>>}
    ELSE {<<[id |-> k, row |-> store[k]]>> : k \in matches}

\* User.create(params) without the storage constraint: always inserts.
UserCreateNoConstraint(store, params) ==
    [ok |-> TRUE, store |-> Append(store, params @@ [moreInfo |-> <<>>])]

\* User.create(params): INSERT, rejected when a row with that email exists
\* (the unique constraint on email at the storage layer).
UserCreate(store, params) ==
    IF MatchEmail(store, params.email) # {}
    THEN [ok |-> FALSE, store |-> store]
    ELSE [ok |-> TRUE, store |-> Append(store, params @@ [moreInfo |-> <<>>])]

\* An update that replaces the row, losing moreInfo.
UserUpdateReplace(store, id, params) ==
    [store EXCEPT ![id] = params @@ [moreInfo |-> <<>>]]

\* An update that writes the session only.
UserUpdateSessionOnly(store, id, params) ==
    [store EXCEPT ![id].session = params.session]

\* instance.update(params): UPDATE ... SET <every key of params> WHERE id.
UserUpdate(store, id, params) ==
    [store EXCEPT ![id] = params @@ [moreInfo |-> store[id].moreInfo]]

\* A save that inserts the instance as a new row.
UserSaveInsert(store, inst, v) ==
    Append(store, [inst.row EXCEPT !.moreInfo = <<v>>])

\* instance.save() after instance.moreInfo = v: UPDATE of the changed
\* attributes WHERE id; no statement when the instance sees no change.
UserSaveMoreInfo(store, inst, v) ==
    IF inst.row.moreInfo = <<v>> THEN store
    ELSE [store EXCEPT ![inst.id].moreInfo = <<v>>]

-----------------------------------------------------------------------------
\* Requests arrive one after the other; their handling interleaves.

CanStart(i) ==
    /\ proc = "serving"
    /\ reqs[i].pc = "idle"
    /\ i > 1 => reqs[i - 1].pc # "idle"

At(i, pc) == proc = "serving" /\ reqs[i].pc = pc

-----------------------------------------------------------------------------
\* GET /callback

\* A catch block that goes on to the cookie and the redirect.
CallbackCatchSwallow(r, step) ==
    [r EXCEPT !.pc = "done", !.outcome = "redirectSignUp", !.failedAt = step,
              !.setCookie = [op |-> "set", value |-> r.recentSession]]

\* The catch block: the error page, nothing else.
CallbackCatch(r, step) ==
    [r EXCEPT !.pc = "done", !.outcome = "error", !.failedAt = step]

CallbackStart(i) ==
    /\ CanStart(i)
    /\ \E idn \in Identities :
         reqs' = [reqs EXCEPT ![i] = [IdleReq EXCEPT !.kind = "callback",
                                        !.pc = "exchange", !.identity = <<idn>>]]
    /\ UNCHANGED <<users, xero, nextUuid, oldSessions, issued, proc, env>>

\* A variant that tries the exchange again.
ExchangeRetried(r) ==
    [r EXCEPT !.exchanges = @ + 1, !.failedAt = "exchange"]

\* apiCallback rejects: the catch block runs.
ExchangeFailed(r) ==
    CallbackCatch([r EXCEPT !.exchanges = @ + 1], "exchange")

\* apiCallback resolves with the token set it has put in the client; the
\* handler goes on to updateTenants, which sends the client's access token.
ExchangeDone(r, client) ==
    [r EXCEPT !.exchanges = @ + 1, !.tokenSet = client.tokenSet,
              !.bearer = client.tokenSet.access_token, !.pc = "tenants"]

CallbackExchange(i) ==
    /\ At(i, "exchange")
    /\ xero' = [xero EXCEPT !.tokenSet = TokenSetOf(reqs[i].identity[1])]
    /\ reqs' = [reqs EXCEPT ![i] = ExchangeDone(reqs[i], xero')]
    /\ UNCHANGED <<users, nextUuid, oldSessions, issued, proc, env>>

CallbackExchangeFails(i) ==
    /\ At(i, "exchange")
    /\ reqs' = [reqs EXCEPT ![i] = ExchangeFailed(reqs[i])]
    /\ UNCHANGED <<users, xero, nextUuid, oldSessions, issued, proc, env>>

\* updateTenants resolves having put the answer in xero.tenants; the handler
\* reads xero.tenants[0] in the same turn and goes on to findOne.
CallbackTenants(i) ==
    /\ At(i, "tenants")
    /\ xero' = [xero EXCEPT !.tenants = ConnectionsOf(reqs[i].bearer)]
    /\ reqs' = [reqs EXCEPT ![i] = [@ EXCEPT !.activeTenant = FirstTenant(xero'.tenants),
                                              !.pc = "find"]]
    /\ UNCHANGED <<users, nextUuid, oldSessions, issued, proc, env>>

CallbackTenantsFails(i) ==
    /\ At(i, "tenants")
    /\ reqs' = [reqs EXCEPT ![i] = CallbackCatch(@, "tenants")]
    /\ UNCHANGED <<users, xero, nextUuid, oldSessions, issued, proc, env>>

\* A generator that hands out the identifier it handed out last.
uuidReused == nextUuid - 1

\* uuid(): an identifier never handed out before.
uuid == nextUuid

\* A variant reading the client's tenants when the parameters are built.
ActiveTenantLate(r, client) == FirstTenant(client.tenants)

\* The tenant that goes into userParams: the local read after updateTenants.
ActiveTenant(r, client) == r.activeTenant

userParams(r, session, client) ==
    LET decodedIdToken == jwtDecode(r.tokenSet.id_token) IN
    [firstName        |-> decodedIdToken.given_name,
     lastName         |-> decodedIdToken.family_name,
     email            |-> decodedIdToken.email,
     xero_userid      |-> decodedIdToken.xero_userid,
     decoded_id_token |-> decodedIdToken,
     token_set        |-> r.tokenSet,
     active_tenant    |-> ActiveTenant(r, client),
     session          |-> session]

\* A variant that sets the cookie before the update or create.
FoundEarlyCookie(r, found, session, client) ==
    [r EXCEPT !.user = found, !.recentSession = session,
              !.params = <<userParams(r, session, client)>>, !.pc = "write",
              !.setCookie = [op |-> "set", value |-> session]]

\* findOne resolved: recentSession and userParams are made, and update or
\* create is issued.
Found(r, found, session, client) ==
    [r EXCEPT !.user = found, !.recentSession = session,
              !.params = <<userParams(r, session, client)>>, !.pc = "write"]

CallbackFind(i) ==
    /\ At(i, "find")
    /\ \E found \in FindOne(users, MatchEmail(users, jwtDecode(reqs[i].tokenSet.id_token).email)) :
         reqs' = [reqs EXCEPT ![i] = Found(@, found, uuid, xero)]
    /\ nextUuid' = nextUuid + 1
    /\ UNCHANGED <<users, xero, oldSessions, issued, proc, env>>

CallbackFindFails(i) ==
    /\ At(i, "find")
    /\ reqs' = [reqs EXCEPT ![i] = CallbackCatch(@, "find")]
    /\ UNCHANGED <<users, xero, nextUuid, oldSessions, issued, proc, env>>

\* The datastore applies the UPDATE of the found row.
CallbackUpdate(i) ==
    /\ At(i, "write")
    /\ reqs[i].user # <<>>
    /\ users' = UserUpdate(users, reqs[i].user[1].id, reqs[i].params[1])
    /\ oldSessions' = oldSessions \cup {users[reqs[i].user[1].id].session}
    /\ reqs' = [reqs EXCEPT ![i] = [@ EXCEPT !.pc = "written", !.writes = @ + 1]]
    /\ UNCHANGED <<xero, nextUuid, issued, proc, env>>

\* The datastore applies the INSERT, or rejects it.
CallbackCreate(i) ==
    /\ At(i, "write")
    /\ reqs[i].user = <<>>
    /\ LET res == UserCreate(users, reqs[i].params[1]) IN
         /\ users' = res.store
         /\ reqs' = [reqs EXCEPT ![i] =
                IF res.ok THEN [@ EXCEPT !.pc = "written", !.writes = @ + 1]
                ELSE CallbackCatch(@, "unique")]
    /\ UNCHANGED <<xero, nextUuid, oldSessions, issued, proc, env>>

\* The datastore fails the statement (connection or write error).
CallbackWriteFails(i) ==
    /\ At(i, "write")
    /\ reqs' = [reqs EXCEPT ![i] = CallbackCatch(@, "write")]
    /\ UNCHANGED <<users, xero, nextUuid, oldSessions, issued, proc, env>>

\* update/create resolved: the cookie and the redirect.
CallbackRespond(i) ==
    /\ At(i, "written")
    /\ reqs' = [reqs EXCEPT ![i] =
           [@ EXCEPT !.setCookie = [op |-> "set", value |-> reqs[i].recentSession],
                     !.outcome = "redirectSignUp", !.pc = "done"]]
    /\ issued' = issued \cup {reqs[i].recentSession}
    /\ UNCHANGED <<users, xero, nextUuid, oldSessions, proc, env>>


-----------------------------------------------------------------------------
\* The states the process starts in: any part of the configuration set; a
\* fresh table, or the table and the cookie an earlier login of Alice has
\* left (sync without force keeps the rows).

AliceBefore == [email |-> "alice@example.com", given_name |-> "Alice"]

ReturningRow ==
    LET r == [IdleReq EXCEPT !.tokenSet = TokenSetOf(AliceBefore),
                             !.activeTenant =
                                 FirstTenant(ConnectionsOf(TokenSetOf(AliceBefore).access_token))]
    IN  userParams(r, 1, [tokenSet |-> <<>>, tenants |-> <<>>]) @@ [moreInfo |-> <<>>]

\* CLIENT_ID, CLIENT_SECRET and REDIRECT_URI of process.env.
ConfigVars == {"CLIENT_ID", "CLIENT_SECRET", "REDIRECT_URI"}

Init ==
    /\ reqs = [i \in ReqIds |-> IdleReq]
    /\ proc = "loading"
    /\ env \in SUBSET ConfigVars
    /\ xero = [tokenSet |-> <<>>, tenants |-> <<>>]
    /\ \/ /\ users = <<>>
          /\ nextUuid = 1
          /\ oldSessions = {}
          /\ issued = {}
       \/ /\ users = <<ReturningRow>>
          /\ nextUuid = 2
          /\ oldSessions = {}
          /\ issued = {1}

\* A check that forgets the redirect URI.
ConfigCompleteNoUri(e) == {"CLIENT_ID", "CLIENT_SECRET"} \subseteq e

\* !client_id || !client_secret || !redirectUrl, negated.
ConfigComplete(e) == ConfigVars \subseteq e

\* The module is loaded: the client is made, the configuration checked (the
\* throw ends the process), then the App is constructed: config() starts
\* sequelize.sync and routes() registers the router.
Load ==
    /\ proc = "loading"
    /\ proc' = IF ConfigComplete(env) THEN "constructed" ELSE "fatal"
    /\ UNCHANGED <<users, xero, reqs, nextUuid, oldSessions, issued, env>>

\* sequelize.sync has resolved: app.listen.
Listen ==
    /\ proc = "constructed"
    /\ proc' = "serving"
    /\ UNCHANGED <<users, xero, reqs, nextUuid, oldSessions, issued, env>>

-----------------------------------------------------------------------------
\* Cookies

\* The session values an expired or a forged cookie names: those of the
\* rows, or 0 for a value that is no session.
ForgedValues ==
    IF users = <<>> THEN {0} ELSE {users[k].session : k \in 1..Len(users)}

\* What a client can hold when it sends a request: nothing; a cookie the
\* server signed, still fresh ("signed") or past its maxAge ("expired"); or
\* a cookie whose signature does not verify ("tampered").
Cookies ==
    {NoCookie}
      \cup {[kind |-> "signed", value |-> v] : v \in issued}
      \cup {[kind |-> "expired", value |-> v] : v \in ForgedValues}
      \cup {[kind |-> "tampered", value |-> v] : v \in ForgedValues}

\* The Cookie header: a browser does not send a cookie past its maxAge.
CookieHeader(cookie) == IF cookie.kind = "expired" THEN NoCookie ELSE cookie

\* A parser that does not check the signature.
signedCookiesUnchecked(header) ==
    IF header.kind = "none" THEN <<>> ELSE <<header.value>>

\* cookieParser(secret): req.signedCookies.recentSession is the value when the
\* signature verifies, false when it does not, undefined without a cookie.
\* <<>> stands for the falsy results.
signedCookies(header) ==
    IF header.kind = "signed" THEN <<header.value>> ELSE <<>>

-----------------------------------------------------------------------------
\* GET /sign-up and POST /sign-up

\* A gate that looks the session up whatever the cookie.
GateAlwaysLookup(r) == [r EXCEPT !.pc = "lookup"]

\* if(req.signedCookies.recentSession) ... else res.redirect('/')
Gate(r) ==
    IF signedCookies(CookieHeader(r.cookie)) # <<>>
    THEN [r EXCEPT !.pc = "lookup"]
    ELSE [r EXCEPT !.pc = "done", !.outcome = "redirectRoot"]

\* The session the lookup asks for.
CookieSession(r) ==
    LET sc == signedCookies(CookieHeader(r.cookie)) IN
    IF sc = <<>> THEN 0 ELSE sc[1]

\* A catch block that sends the client back to the start instead.
GatedCatchRedirect(r, step) ==
    [r EXCEPT !.pc = "done", !.outcome = "redirectRoot", !.failedAt = step]

\* The catch block of the gated routes: the error page.
GatedCatch(r, step) ==
    [r EXCEPT !.pc = "done", !.outcome = "error", !.failedAt = step]

GetSignUpStart(i) ==
    /\ CanStart(i)
    /\ \E c \in Cookies :
         reqs' = [reqs EXCEPT ![i] =
                    Gate([IdleReq EXCEPT !.kind = "getSignUp", !.cookie = c])]
    /\ UNCHANGED <<users, xero, nextUuid, oldSessions, issued, proc, env>>

\* findUserWithSession resolved: the form, or "Could not find user".
GetSignUpLookup(i) ==
    /\ At(i, "lookup")
    /\ reqs[i].kind = "getSignUp"
    /\ \E found \in FindOne(users, MatchSession(users, CookieSession(reqs[i]))) :
         LET r == [reqs[i] EXCEPT !.lookups = @ + 1, !.user = found,
                       !.held = MatchSession(users, CookieSession(reqs[i])) # {},
                       !.stale = CookieSession(reqs[i]) \in oldSessions] IN
         reqs' = [reqs EXCEPT ![i] =
                    IF found = <<>> THEN GatedCatch(r, "no user")
                    ELSE [r EXCEPT !.pc = "done", !.outcome = "form"]]
    /\ UNCHANGED <<users, xero, nextUuid, oldSessions, issued, proc, env>>

PostSignUpStart(i) ==
    /\ CanStart(i)
    /\ \E c \in Cookies, b \in Bodies :
         reqs' = [reqs EXCEPT ![i] =
                    Gate([IdleReq EXCEPT !.kind = "postSignUp", !.cookie = c,
                                         !.body = <<b>>])]
    /\ UNCHANGED <<users, xero, nextUuid, oldSessions, issued, proc, env>>

\* findUserWithSession resolved: user.moreInfo is set and save() issued; on
\* null the assignment throws.
PostSignUpLookup(i) ==
    /\ At(i, "lookup")
    /\ reqs[i].kind = "postSignUp"
    /\ \E found \in FindOne(users, MatchSession(users, CookieSession(reqs[i]))) :
         LET r == [reqs[i] EXCEPT !.lookups = @ + 1, !.user = found,
                       !.held = MatchSession(users, CookieSession(reqs[i])) # {},
                       !.stale = CookieSession(reqs[i]) \in oldSessions] IN
         reqs' = [reqs EXCEPT ![i] =
                    IF found = <<>> THEN GatedCatch(r, "no user")
                    ELSE [r EXCEPT !.pc = "save"]]
    /\ UNCHANGED <<users, xero, nextUuid, oldSessions, issued, proc, env>>

\* findUserWithSession rejects (datastore error), on either route.
GatedLookupFails(i) ==
    /\ At(i, "lookup")
    /\ reqs' = [reqs EXCEPT ![i] =
           GatedCatch([@ EXCEPT !.lookups = @ + 1,
                        !.held = MatchSession(users, CookieSession(reqs[i])) # {},
                        !.stale = CookieSession(reqs[i]) \in oldSessions], "lookup")]
    /\ UNCHANGED <<users, xero, nextUuid, oldSessions, issued, proc, env>>

\* The datastore applies save(); the confirmation is rendered.
PostSignUpSave(i) ==
    /\ At(i, "save")
    /\ users' = UserSaveMoreInfo(users, reqs[i].user[1], reqs[i].body[1])
    /\ reqs' = [reqs EXCEPT ![i] =
           [@ EXCEPT !.pc = "done", !.outcome = "updated",
                     !.writes = IF users' = users THEN @ ELSE @ + 1]]
    /\ UNCHANGED <<xero, nextUuid, oldSessions, issued, proc, env>>

PostSignUpSaveFails(i) ==
    /\ At(i, "save")
    /\ reqs' = [reqs EXCEPT ![i] = GatedCatch(@, "save")]
    /\ UNCHANGED <<users, xero, nextUuid, oldSessions, issued, proc, env>>

-----------------------------------------------------------------------------
\* GET / and GET /xero/sign-up

HomeStart(i) ==
    /\ CanStart(i)
    /\ reqs' = [reqs EXCEPT ![i] = [IdleReq EXCEPT !.kind = "home", !.pc = "consent"]]
    /\ UNCHANGED <<users, xero, nextUuid, oldSessions, issued, proc, env>>

XeroSignUpStart(i) ==
    /\ CanStart(i)
    /\ reqs' = [reqs EXCEPT ![i] = [IdleReq EXCEPT !.kind = "xeroSignUp", !.pc = "consent"]]
    /\ UNCHANGED <<users, xero, nextUuid, oldSessions, issued, proc, env>>

\* buildConsentUrl resolved: the landing page, or the redirect to the provider.
Consent(i) ==
    /\ At(i, "consent")
    /\ reqs' = [reqs EXCEPT ![i] =
           [@ EXCEPT !.pc = "done",
                     !.outcome = IF reqs[i].kind = "home" THEN "home"
                                 ELSE "redirectProvider"]]
    /\ UNCHANGED <<users, xero, nextUuid, oldSessions, issued, proc, env>>

\* What a rejected promise of an async handler without try/catch leads to:
\* the rejection is unhandled and the request is never answered, the process
\* going on or exiting as the runtime decides; or the framework's own error
\* handler answers it.
Uncaught ==
    { [outcome |-> "unanswered",     proc |-> "serving"],
      [outcome |-> "unanswered",     proc |-> "crashed"],
      [outcome |-> "frameworkError", proc |-> "serving"] }

\* buildConsentUrl rejects (discovery fails or times out): no catch block.
ConsentFails(i) ==
    /\ At(i, "consent")
    /\ \E u \in Uncaught :
         /\ reqs' = [reqs EXCEPT ![i] =
                [@ EXCEPT !.pc = "done", !.outcome = u.outcome, !.failedAt = "consent"]]
         /\ proc' = u.proc
    /\ UNCHANGED <<users, xero, nextUuid, oldSessions, issued, env>>

-----------------------------------------------------------------------------
\* GET /logout

\* A logout that invalidates the session of the row the cookie names.
LogoutInvalidates(store, header) ==
    IF signedCookies(header) = <<>> THEN store
    ELSE [k \in 1..Len(store) |->
            IF store[k].session = signedCookies(header)[1]
            THEN [store[k] EXCEPT !.session = 0] ELSE store[k]]

\* The handler has no statement on User: the table after it.
LogoutStore(store, header) == store

\* A logout that sends no Set-Cookie at all.
LogoutNeverClears(header) == NoSetCookie

\* if (req.signedCookies.recentSession) res.clearCookie('recentSession')
LogoutSetCookie(header) ==
    IF signedCookies(header) # <<>>
    THEN [op |-> "clear", value |-> 0] ELSE NoSetCookie

\* The handler is synchronous: one step from request to response.
Logout(i) ==
    /\ CanStart(i)
    /\ \E c \in Cookies :
         /\ reqs' = [reqs EXCEPT ![i] =
              [IdleReq EXCEPT !.kind = "logout", !.cookie = c, !.pc = "done",
                   !.setCookie = LogoutSetCookie(CookieHeader(c)),
                   !.outcome = "redirectRoot"]]
         /\ users' = LogoutStore(users, CookieHeader(c))
    /\ UNCHANGED <<xero, nextUuid, oldSessions, issued, proc, env>>

-----------------------------------------------------------------------------

Next ==
    \/ Load
    \/ Listen
    \/ \E i \in ReqIds :
        \/ CallbackStart(i)
        \/ CallbackExchange(i)
        \/ CallbackExchangeFails(i)
        \/ CallbackTenants(i)
        \/ CallbackTenantsFails(i)
        \/ CallbackFind(i)
        \/ CallbackFindFails(i)
        \/ CallbackUpdate(i)
        \/ CallbackCreate(i)
        \/ CallbackWriteFails(i)
        \/ CallbackRespond(i)
        \/ GetSignUpStart(i)
        \/ GetSignUpLookup(i)
        \/ PostSignUpStart(i)
        \/ PostSignUpLookup(i)
        \/ GatedLookupFails(i)
        \/ PostSignUpSave(i)
        \/ PostSignUpSaveFails(i)
        \/ HomeStart(i)
        \/ XeroSignUpStart(i)
        \/ Consent(i)
        \/ ConsentFails(i)
        \/ Logout(i)

Spec == Init /\ [][Next]_vars


-----------------------------------------------------------------------------
\* Properties

Callbacks == {i \in ReqIds : reqs[i].kind = "callback"}
Gated     == {i \in ReqIds : reqs[i].kind \in {"getSignUp", "postSignUp"}}
EmailOf(i) == reqs[i].identity[1].email
RowsWithEmail(e) == MatchEmail(users, e)

\* C1: whatever callbacks have completed, and however they interleaved, the
\* table holds at most one row for every email.
C1_OneRowPerEmail ==
    \A e \in {idn.email : idn \in Identities} : Cardinality(RowsWithEmail(e)) <= 1

\* Two callbacks for one email have both completed with the redirect: the
\* first created the row, the second updated it.
C1_Witness ==
    \E i, j \in Callbacks :
        /\ i # j
        /\ EmailOf(i) = EmailOf(j)
        /\ reqs[i].outcome = "redirectSignUp" /\ reqs[i].user = <<>>
        /\ reqs[j].outcome = "redirectSignUp" /\ reqs[j].user # <<>>
        /\ Cardinality(RowsWithEmail(EmailOf(i))) = 1

\* C2: when two callbacks for the same email both found no row and both
\* creates have reached the datastore, only one has inserted; the other was
\* rejected and its request ended on the error page without a cookie; and
\* the table never holds two rows for that email.
C2_RaceRejected ==
    \A i, j \in Callbacks :
        (/\ i # j
         /\ EmailOf(i) = EmailOf(j)
         /\ reqs[i].user = <<>> /\ reqs[j].user = <<>>
         /\ reqs[i].pc \in {"written", "done"} /\ reqs[i].writes = 1
         /\ reqs[j].pc \in {"written", "done"} /\ reqs[j].recentSession # 0)
        => /\ reqs[j].writes = 0
           /\ reqs[j].pc = "done"
           /\ reqs[j].outcome = "error"
           /\ reqs[j].failedAt \in {"unique", "write"}
           /\ reqs[j].setCookie = NoSetCookie
           /\ Cardinality(RowsWithEmail(EmailOf(i))) = 1

\* Both callbacks found no row; one created it, the other's create was
\* rejected by the constraint.
C2_Witness ==
    \E i, j \in Callbacks :
        /\ i # j
        /\ EmailOf(i) = EmailOf(j)
        /\ reqs[i].user = <<>> /\ reqs[i].writes = 1
        /\ reqs[j].user = <<>> /\ reqs[j].failedAt = "unique"
        /\ reqs[j].outcome = "error"

\* C3: a callback's write puts a newly generated identifier in the row: a
\* session value that a write has overwritten is held by no row; the session
\* a callback found on its row is overwritten once its update is applied;
\* and a sign-up request whose lookup ran with an overwritten session does
\* not get the form (nor the confirmation).
C3_OldSessionDead ==
    /\ \A s \in oldSessions : MatchSession(users, s) = {}
    /\ \A i \in Callbacks :
          reqs[i].writes = 1 /\ reqs[i].user # <<>>
          => /\ reqs[i].user[1].row.session \in oldSessions
             /\ reqs[i].user[1].row.session # reqs[i].recentSession
    /\ \A i \in Gated : reqs[i].stale => reqs[i].outcome \notin {"form", "updated"}

\* A login has overwritten Alice's session, and a GET /sign-up carrying the
\* cookie of the session before it has ended on the error page.
C3_Witness ==
    \E i \in Callbacks, j \in Gated :
        /\ reqs[i].user # <<>> /\ reqs[i].writes = 1
        /\ reqs[j].kind = "getSignUp"
        /\ reqs[j].cookie = [kind |-> "signed", value |-> reqs[i].user[1].row.session]
        /\ reqs[j].stale
        /\ reqs[j].outcome = "error"

\* C4: a callback has set the cookie, or sent the redirect to /sign-up, only
\* with its exchange and its update or create done; when the update or create
\* failed the request has no cookie and ends on the error page.
C4_CookieAfterUpsert ==
    \A i \in Callbacks :
        /\ (reqs[i].setCookie.op = "set" \/ reqs[i].outcome = "redirectSignUp")
           => /\ reqs[i].exchanges = 1
              /\ reqs[i].writes = 1
              /\ reqs[i].failedAt = ""
              /\ reqs[i].setCookie = [op |-> "set", value |-> reqs[i].recentSession]
              /\ reqs[i].outcome = "redirectSignUp"
        /\ reqs[i].failedAt \in {"write", "unique"}
           => /\ reqs[i].setCookie = NoSetCookie
              /\ reqs[i].outcome = "error"
              /\ reqs[i].writes = 0

\* A callback whose update failed at the datastore has ended on the error
\* page.
C4_Witness ==
    \E i \in Callbacks :
        /\ reqs[i].user # <<>>
        /\ reqs[i].failedAt = "write"
        /\ reqs[i].outcome = "error"

\* C5: a callback whose exchange failed is over, on the error page, after
\* that one exchange: it has made no session identifier and no parameters,
\* written no row and set no cookie.
C5_ExchangeFailure ==
    \A i \in Callbacks :
        reqs[i].failedAt = "exchange"
        => /\ reqs[i].pc = "done"
           /\ reqs[i].outcome = "error"
           /\ reqs[i].exchanges = 1
           /\ reqs[i].writes = 0
           /\ reqs[i].recentSession = 0
           /\ reqs[i].params = <<>>
           /\ reqs[i].setCookie = NoSetCookie

C5_Witness ==
    \E i \in Callbacks : reqs[i].failedAt = "exchange" /\ reqs[i].outcome = "error"

\* C6: a request to GET or POST /sign-up whose Cookie header holds no
\* recentSession is answered at once with the redirect to /, having made no
\* session lookup and no write.
C6_NoCookieRedirect ==
    \A i \in Gated :
        CookieHeader(reqs[i].cookie) = NoCookie
        => /\ reqs[i].pc = "done"
           /\ reqs[i].outcome = "redirectRoot"
           /\ reqs[i].lookups = 0
           /\ reqs[i].writes = 0

C6_Witness ==
    \E i \in Gated :
        /\ reqs[i].kind = "postSignUp"
        /\ reqs[i].cookie = NoCookie
        /\ reqs[i].outcome = "redirectRoot"
        /\ users # <<>>

\* C7: a gated request with a validly signed cookie whose session no row held
\* when the lookup ran ends on the error page, not on a redirect, and writes
\* nothing.
C7_UnknownSessionError ==
    \A i \in Gated :
        (reqs[i].lookups = 1 /\ ~reqs[i].held)
        => /\ reqs[i].cookie.kind = "signed"
           /\ reqs[i].pc = "done"
           /\ reqs[i].outcome = "error"
           /\ reqs[i].writes = 0

\* A POST /sign-up with the signed cookie of an overwritten session has
\* ended on the error page.
C7_Witness ==
    \E i \in Gated :
        /\ reqs[i].kind = "postSignUp"
        /\ reqs[i].cookie.kind = "signed"
        /\ reqs[i].lookups = 1 /\ ~reqs[i].held
        /\ reqs[i].failedAt = "no user"
        /\ reqs[i].outcome = "error"

C9_Original == [][xero' = xero]_vars

\* C9 amended: the parameters a callback has built, and every row, carry the
\* token set of the identity that callback exchanged and the first tenant of
\* that identity's connections, whatever the client holds by then.
C9_OwnTokenAndTenant ==
    /\ \A i \in Callbacks :
          reqs[i].params # <<>>
          => /\ reqs[i].params[1].token_set = TokenSetOf(reqs[i].identity[1])
             /\ reqs[i].params[1].active_tenant =
                    FirstTenant(ConnectionsOf(TokenSetOf(reqs[i].identity[1]).access_token))
    /\ \A k \in 1..Len(users) :
          /\ jwtDecode(users[k].token_set.id_token).email = users[k].email
          /\ users[k].active_tenant =
                 FirstTenant(ConnectionsOf(users[k].token_set.access_token))

\* One callback has stored its row while a callback of another user, past
\* its exchange, has left its own token set and tenants in the client.
C9_Witness ==
    \E i, j \in Callbacks :
        /\ EmailOf(i) # EmailOf(j)
        /\ reqs[i].pc = "written" /\ reqs[i].writes = 1
        /\ reqs[j].pc = "find"
        /\ xero.tokenSet = reqs[j].tokenSet
        /\ xero.tenants # <<reqs[i].activeTenant>>

\* C10 as stated: every request in which an awaited call failed has been
\* answered with the error page, and no failure has ended the process.
C10_Original ==
    /\ proc # "crashed"
    /\ \A i \in ReqIds :
          reqs[i].failedAt # "" /\ reqs[i].pc = "done" => reqs[i].outcome = "error"


\* C16: with the client identifier, the client secret or the redirect URI
\* missing, the process never has its routes registered and never listens,
\* and no request is handled.
C16_NoServingWithoutConfig ==
    env # ConfigVars
    => /\ proc \in {"loading", "fatal"}
       /\ \A i \in ReqIds : reqs[i] = IdleReq

\* Only the redirect URI is missing, and loading the module has thrown.
C16_Witness ==
    /\ env = {"CLIENT_ID", "CLIENT_SECRET"}
    /\ proc = "fatal"


\* The POST /sign-up requests whose save has changed row k.
PostWriters(k) ==
    {i \in ReqIds : /\ reqs[i].kind = "postSignUp"
                    /\ reqs[i].writes = 1
                    /\ reqs[i].user[1].id = k}

\* C11: a row's moreInfo is empty until a POST /sign-up with a signed session
\* cookie has saved it, and from then on it is a value such a POST submitted:
\* no callback, creating or updating, sets or clears it.
C11_MoreInfoOnlyByPost ==
    \A k \in 1..Len(users) :
        /\ PostWriters(k) = {} => users[k].moreInfo = <<>>
        /\ PostWriters(k) # {} =>
              users[k].moreInfo \in {reqs[i].body : i \in PostWriters(k)}
        /\ \A i \in PostWriters(k) : reqs[i].cookie.kind = "signed"

\* A POST has saved moreInfo on Alice's row and a later login has updated
\* the row: the session is the new one and moreInfo is what the POST saved.
C11_Witness ==
    \E i \in Callbacks, j \in Gated :
        /\ reqs[j].kind = "postSignUp" /\ reqs[j].writes = 1
        /\ reqs[i].writes = 1 /\ reqs[i].user # <<>>
        /\ reqs[i].user[1].id = reqs[j].user[1].id
        /\ reqs[i].user[1].row.moreInfo = reqs[j].body
        /\ users[reqs[i].user[1].id].session = reqs[i].recentSession
        /\ users[reqs[i].user[1].id].moreInfo = reqs[j].body


\* The GET /logout requests.
Logouts == {i \in ReqIds : reqs[i].kind = "logout"}

\* C12: logout changes no row. The row a logged-out cookie names still holds
\* that session unless a later login rotated it, and a GET /sign-up that
\* presents the cookie after the logout, before any rotation, gets the form
\* (unless the lookup itself fails).
C12_LogoutKeepsSession ==
    \A i \in Logouts :
        reqs[i].cookie.kind = "signed" =>
            /\ reqs[i].cookie.value \notin oldSessions
                  => MatchSession(users, reqs[i].cookie.value) # {}
            /\ \A j \in ReqIds :
                  ( /\ j > i
                    /\ reqs[j].kind = "getSignUp"
                    /\ reqs[j].cookie = reqs[i].cookie
                    /\ reqs[j].pc = "done"
                    /\ reqs[j].lookups = 1
                    /\ reqs[j].failedAt # "lookup"
                    /\ ~reqs[j].stale )
                  => reqs[j].outcome = "form"

\* A client logged out and then sent the retained cookie to GET /sign-up:
\* the form was rendered.
C12_Witness ==
    \E i \in Logouts, j \in ReqIds :
        /\ j > i
        /\ reqs[i].cookie.kind = "signed"
        /\ reqs[i].setCookie.op = "clear"
        /\ reqs[j].kind = "getSignUp"
        /\ reqs[j].cookie = reqs[i].cookie
        /\ reqs[j].outcome = "form"


\* The recentSession cookie the browser holds once it has the response of
\* request r: none after a clearing Set-Cookie or past maxAge, else the one
\* it sent.
JarAfter(r) ==
    IF r.setCookie.op = "clear" \/ r.cookie.kind = "expired" THEN NoCookie
    ELSE r.cookie

\* C13 as stated: after any logout the browser holds no recentSession cookie.
C13_Original ==
    \A i \in Logouts :
        reqs[i].outcome = "redirectRoot" /\ JarAfter(reqs[i]) = NoCookie

\* C13: every logout redirects to /. The cookie is cleared exactly when its
\* signature verifies (whether or not a row holds its session), leaving the
\* browser without one, as it is when none was sent; a tampered cookie gets
\* no Set-Cookie and stays in the browser.
C13_LogoutClearsSignedCookie ==
    \A i \in Logouts :
        /\ reqs[i].outcome = "redirectRoot"
        /\ (reqs[i].setCookie.op = "clear") = (reqs[i].cookie.kind = "signed")
        /\ reqs[i].cookie.kind \in {"signed", "none", "expired"}
              => JarAfter(reqs[i]) = NoCookie
        /\ reqs[i].cookie.kind = "tampered"
              => /\ reqs[i].setCookie = NoSetCookie
                 /\ JarAfter(reqs[i]) = reqs[i].cookie

\* A logout cleared a signed cookie whose session no row holds any more.
C13_Witness ==
    \E i \in Logouts :
        /\ reqs[i].cookie.kind = "signed"
        /\ MatchSession(users, reqs[i].cookie.value) = {}
        /\ reqs[i].setCookie.op = "clear"
        /\ JarAfter(reqs[i]) = NoCookie


\* Row k carries the identity fields of the id_token of callback i.
CarriesIdentity(k, i) ==
    LET claims == ClaimsOf(reqs[i].identity[1]) IN
    /\ users[k].firstName = claims.given_name
    /\ users[k].lastName = claims.family_name
    /\ users[k].xero_userid = claims.xero_userid
    /\ users[k].decoded_id_token = claims

PostsUpdated == {i \in ReqIds : reqs[i].kind = "postSignUp" /\ reqs[i].outcome = "updated"}

\* C15: when two POST /sign-up requests have submitted the same value for the
\* same user and no POST has written another value, the row's moreInfo is
\* that value; and as long as no callback has written, the table has the rows
\* it started with, unchanged in every field but moreInfo.
C15_PostIdempotent ==
    /\ \A i, j \in PostsUpdated :
          ( /\ i # j
            /\ reqs[i].body = reqs[j].body
            /\ reqs[i].user[1].id = reqs[j].user[1].id
            /\ \A l \in ReqIds :
                  (reqs[l].kind = "postSignUp" /\ reqs[l].body # reqs[i].body)
                      => reqs[l].writes = 0 )
          => users[reqs[i].user[1].id].moreInfo = reqs[i].body
    /\ (\A i \in Callbacks : reqs[i].writes = 0)
          => \/ users = <<>>
             \/ /\ Len(users) = 1
                /\ [users[1] EXCEPT !.moreInfo = <<>>] = ReturningRow

\* The same value was submitted twice with the same cookie and both
\* submissions were confirmed: one row, holding the value.
C15_Witness ==
    \E i, j \in PostsUpdated :
        /\ i # j
        /\ reqs[i].body = reqs[j].body
        /\ reqs[i].cookie = reqs[j].cookie
        /\ Len(users) = 1
        /\ users[1].moreInfo = reqs[i].body


\* C17 as stated: whenever a callback issues the cookie, some row holds the
\* session the cookie carries.
C17_Original ==
    [][\A i \in ReqIds :
         ( /\ reqs[i].kind = "callback"
           /\ reqs[i].pc = "written"
           /\ reqs'[i].pc = "done"
           /\ reqs'[i].setCookie.op = "set" )
         => MatchSession(users', reqs'[i].setCookie.value) # {}]_vars

\* C18 as stated: whenever the save of a POST /sign-up changes a row, the row
\* holds the session of the request's cookie.
C18_Original ==
    [][\A i \in ReqIds :
         ( /\ reqs[i].kind = "postSignUp"
           /\ reqs[i].pc = "save"
           /\ reqs'[i].pc = "done"
           /\ users' # users )
         => users[reqs[i].user[1].id].session = CookieSession(reqs[i])]_vars

\* C19: no two rows hold the same session, so a session matches at most one
\* row (uuid() is taken as never repeating a value).
C19_SessionsDistinct ==
    /\ \A k, l \in 1..Len(users) :
          users[k].session = users[l].session => k = l
    /\ \A v \in issued : Cardinality(MatchSession(users, v)) <= 1

\* Two users have logged in: two rows, each with its own session.
C19_Witness ==
    /\ Len(users) = 2
    /\ users[1].session # users[2].session
    /\ \A k \in 1..2 : \E i \in Callbacks :
          reqs[i].pc = "done" /\ reqs[i].recentSession = users[k].session

=============================================================================
